---- MODULE Spec2Model ----
(***************************************************************************)
(* Model of the fixture difficulty engine of fpl-dashboard                 *)
(* (src/utils/fixture_analyzer.py, class FixtureAnalyzer).                 *)
(*                                                                         *)
(* Numbers.  The code computes with Python floats.  The model computes     *)
(* the same expressions exactly, in integers:                              *)
(*   - a difficulty before rounding is an integer number of 1/Unit         *)
(*     (Unit = 3000 per 1.0; every term of the code's sum is a whole       *)
(*     number of 1/3000 when strengths are integers and per-game values    *)
(*     are whole hundredths, which is how scraper.py produces them);       *)
(*   - a rounded difficulty (round(x, 2)) is an integer number of          *)
(*     hundredths (100 .. 500);                                            *)
(*   - a per-game value of the team-form table is a cell: <<v>> with v in  *)
(*     hundredths, or <<>> for NaN.                                        *)
(* round(x, 2) resolves an exact tie to the even hundredth, as Python's    *)
(* round does on an exactly representable tie.                             *)
(***************************************************************************)
EXTENDS Integers, Sequences, FiniteSets, TLC

VARIABLES
    teams,          \* self.teams: team id -> team record ({} after __init__)
    current_gw,     \* self.current_gw (None after __init__)
    first_full_gw,  \* self.first_full_gw (None after __init__)
    api_fixtures,   \* what the fixtures/ endpoint returns (get_all_fixtures)
    team_form_df,   \* the team-form table the caller passes (None, or a table)
    ret,            \* the last call made on the analyzer and what it returned
    kept,           \* a score the caller was given earlier and has kept
    quicksort,      \* the order in which the sort leaves rows of equal keys
    players,        \* the scraper's self.players: player id -> player info
    history,        \* what element-summary/<id>/ returns as 'history', per id
    match_df,       \* match_df of scrape_all_data (None before the scrape)
    player_df       \* player_df of scrape_all_data (None before aggregation)

analyzer_vars ==
    <<teams, current_gw, first_full_gw, api_fixtures, team_form_df, ret, kept, quicksort>>

scraper_vars == <<players, history, match_df, player_df>>

vars == <<analyzer_vars, scraper_vars>>

\* no scraper has been constructed
ScraperIdle ==
    /\ players = <<>>
    /\ history = <<>>
    /\ match_df = <<>>
    /\ player_df = <<>>

(***************************************************************************)
(* Bounds of the model                                                     *)
(***************************************************************************)
MaxFormLevel == 2      \* per-game values are 0, 1.25, .. 1.25*MaxFormLevel
MaxGW == 2             \* gameweeks (events) are 1 .. MaxGW
MaxN == 2              \* next_n_gameweeks is 1 .. MaxN

\* Python's None for the integer-valued fields
None == 0 - 1

\* 1.0 in the unit of an unrounded difficulty (one hundredth is 30 units)
Unit == 30 * 100

(***************************************************************************)
(* Team-form table (a pandas DataFrame, or None)                           *)
(***************************************************************************)
NaN == <<>>
Num(v) == <<v>>

FormColumns == {"goals_conceded_per_game", "goals_per_game"}

NoForm == [kind |-> "None"]

DataFrame(columns, rows) == [kind |-> "DataFrame", columns |-> columns, rows |-> rows]

FormValues == {125 * k : k \in 0 .. MaxFormLevel}

FormCells == {NaN} \cup {Num(v) : v \in FormValues}

\* rows of a table that has the columns cols over the teams named in names;
\* a cell of a column the table lacks is never read
FormRows(names, cols) ==
    [team : names,
     goals_conceded_per_game :
        IF "goals_conceded_per_game" \in cols THEN FormCells ELSE {NaN},
     goals_per_game :
        IF "goals_per_game" \in cols THEN FormCells ELSE {NaN}]

SeqsUpTo(S, n) == UNION {[1 .. k -> S] : k \in 0 .. n}

\* None, and the tables of at most as many rows as there are teams (a team may
\* have no row, or several: the outer merge of analyze_fixtures yields two rows
\* for a team whose games_played differ between the two tables)
FormTables(names) ==
    {NoForm} \cup
    {DataFrame(cols, rows) :
        <<cols, rows>> \in
            UNION {{<<c, r>> : r \in SeqsUpTo(FormRows(names, c), Cardinality(names))} :
                   c \in SUBSET FormColumns}}

\* team_form_df is not None and not team_form_df.empty
HasForm(df) == df.kind = "DataFrame" /\ Len(df.rows) > 0

\* team_form_df[team_form_df['team'] == name]
RowsOf(df, name) == SelectSeq(df.rows, LAMBDA r : r.team = name)

\* row.get(col, default): the cell, or the default when the column is absent
RowGet(df, row, col, default) ==
    IF col \in df.columns THEN row[col] ELSE Num(default)

(***************************************************************************)
(* Python's min and max of two numbers: the first argument is kept unless  *)
(* the second compares smaller (larger); every comparison with NaN is      *)
(* false.  The first argument is never NaN in the code modelled.           *)
(***************************************************************************)
PyMin(a, x) == IF x # NaN /\ x[1] < a[1] THEN x ELSE a

PyMax(a, x) == IF x # NaN /\ x[1] > a[1] THEN x ELSE a

\* round half to even of num/den (den > 0)
RoundHalfEven(num, den) ==
    LET q == num \div den
        r == num % den
    IN  IF 2 * r < den THEN q
        ELSE IF 2 * r > den THEN q + 1
        ELSE IF q % 2 = 0 THEN q ELSE q + 1

\* round(difficulty, 2): units of 1/Unit to hundredths
Round2(x) == RoundHalfEven(x, Unit \div 100)

(***************************************************************************)
(* calculate_fixture_difficulty                                            *)
(***************************************************************************)

\* defensive_norm with the scale running the other way (0.5 conceded = easy)
defensive_norm_rising(goals_conceded) ==
    LET x == IF goals_conceded = NaN THEN NaN
             ELSE Num(((goals_conceded[1] * (Unit \div 100) - Unit \div 2) * 2) \div 3)
    IN  PyMax(Num(0), PyMin(Num(Unit), x))[1]

\* step 3: max(0, min(1, (2.0 - goals_conceded) / 1.5)), goals_conceded a cell
defensive_norm(goals_conceded) ==
    LET x == IF goals_conceded = NaN THEN NaN
             ELSE Num(((2 * Unit - goals_conceded[1] * (Unit \div 100)) * 2) \div 3)
    IN  PyMax(Num(0), PyMin(Num(Unit), x))[1]

\* attacking_norm without the 0.5 offset
attacking_norm_no_offset(goals_scored) ==
    LET x == IF goals_scored = NaN THEN NaN
             ELSE Num((goals_scored[1] * (Unit \div 100)) \div 2)
    IN  PyMax(Num(0), PyMin(Num(Unit), x))[1]

\* step 4: max(0, min(1, (goals_scored - 0.5) / 2.0))
attacking_norm(goals_scored) ==
    LET x == IF goals_scored = NaN THEN NaN
             ELSE Num((goals_scored[1] * (Unit \div 100) - Unit \div 2) \div 2)
    IN  PyMax(Num(0), PyMin(Num(Unit), x))[1]

\* step 5: -max(0, min(0.5, (goals_scored - 1.0) / 2.0))
own_form_norm(goals_scored) ==
    LET x == IF goals_scored = NaN THEN NaN
             ELSE Num((goals_scored[1] * (Unit \div 100) - Unit) \div 2)
    IN  0 - PyMax(Num(0), PyMin(Num(Unit \div 2), x))[1]

\* base_difficulty with an adjustment read from the analyzer's first_full_gw
base_difficulty_by_first_full_gw(opponent, is_home) ==
    LET opponent_strength ==
            IF is_home THEN (opponent.strength_overall_away * Unit) \div 1000
            ELSE (opponent.strength_overall_home * Unit) \div 1000
    IN  opponent_strength * 5 + (IF first_full_gw = None THEN 0 ELSE Unit)

\* step 1: the opponent's strength at the venue it will occupy, / 1000, * 5
base_difficulty(opponent, is_home) ==
    LET opponent_strength ==
            IF is_home THEN (opponent.strength_overall_away * Unit) \div 1000
            ELSE (opponent.strength_overall_home * Unit) \div 1000
    IN  opponent_strength * 5

\* home_advantage with the venues swapped
home_advantage_swapped(is_home) == IF is_home THEN Unit \div 2 ELSE 0 - Unit \div 2

\* step 2: -0.5 if is_home else 0.5
home_advantage(is_home) == IF is_home THEN 0 - Unit \div 2 ELSE Unit \div 2

\* defensive_difficulty falling back to the default 1.5 when there is no row
defensive_difficulty_default(form, opponent) ==
    LET opponent_data == IF HasForm(form) THEN RowsOf(form, opponent.name) ELSE <<>>
    IN  IF Len(opponent_data) > 0
        THEN defensive_norm(RowGet(form, opponent_data[1],
                                   "goals_conceded_per_game", 150))
        ELSE defensive_norm(Num(150))

\* step 3: 0 unless the table has a row of the opponent
defensive_difficulty(form, opponent) ==
    LET opponent_data == IF HasForm(form) THEN RowsOf(form, opponent.name) ELSE <<>>
    IN  IF Len(opponent_data) > 0
        THEN defensive_norm(RowGet(form, opponent_data[1],
                                   "goals_conceded_per_game", 150))
        ELSE 0

\* step 4: 0 unless the table has a row of the opponent
attacking_threat(form, opponent) ==
    LET opponent_data == IF HasForm(form) THEN RowsOf(form, opponent.name) ELSE <<>>
    IN  IF Len(opponent_data) > 0
        THEN attacking_norm(RowGet(form, opponent_data[1], "goals_per_game", 150))
        ELSE 0

\* step 5: 0 unless the table has a row of the team
team_form_factor(form, team) ==
    LET team_data == IF HasForm(form) THEN RowsOf(form, team.name) ELSE <<>>
    IN  IF Len(team_data) > 0
        THEN own_form_norm(RowGet(form, team_data[1], "goals_per_game", 100))
        ELSE 0

\* the locals of calculate_fixture_difficulty before the weighted combination
difficulty_terms(team_id, opponent_id, is_home, form) ==
    LET opponent == teams[opponent_id]
        team == teams[team_id]
    IN  [base_difficulty |-> base_difficulty(opponent, is_home),
         home_advantage |-> home_advantage(is_home),
         defensive_difficulty |-> defensive_difficulty(form, opponent),
         attacking_threat |-> attacking_threat(form, opponent),
         team_form_factor |-> team_form_factor(form, team)]

\* weighted_difficulty without the 0.4 weight of the base term
weighted_difficulty_unweighted_base(t) ==
    t.base_difficulty
    + t.home_advantage
    + (t.defensive_difficulty * 8) \div 10
    + (t.attacking_threat * 4) \div 10
    + t.team_form_factor

\* the weighted combination, before clamping (multiples of 1/Unit)
weighted_difficulty(t) ==
    (t.base_difficulty * 4) \div 10
    + t.home_advantage
    + (t.defensive_difficulty * 8) \div 10
    + (t.attacking_threat * 4) \div 10
    + t.team_form_factor

\* clamp_difficulty without the upper limit
clamp_difficulty_no_upper(difficulty) == PyMax(Num(Unit), Num(difficulty))[1]

\* max(1.0, min(5.0, difficulty))
clamp_difficulty(difficulty) ==
    PyMax(Num(Unit), PyMin(Num(5 * Unit), Num(difficulty)))[1]

\* the value returned, in hundredths
calculate_fixture_difficulty(team_id, opponent_id, is_home, form) ==
    Round2(clamp_difficulty(
        weighted_difficulty(difficulty_terms(team_id, opponent_id, is_home, form))))

(***************************************************************************)
(* Teams                                                                   *)
(***************************************************************************)
Team(id, home, away) ==
    [id |-> id, name |-> id,
     strength_overall_home |-> home, strength_overall_away |-> away]

\* <<strength_overall_home, strength_overall_away>> drawn for a team
StrengthPairs == {<<1200, 1100>>, <<1000, 1300>>, <<0, 2000>>, <<2000, 0>>}

ScoreTeams == {1, 2}

NoCall == [op |-> "none"]

(***************************************************************************)
(* Operations                                                              *)
(***************************************************************************)

\* a call of calculate_fixture_difficulty with the caller's form table
CalculateFixtureDifficulty(team_id, opponent_id, is_home) ==
    /\ team_id \in DOMAIN teams
    /\ opponent_id \in DOMAIN teams
    /\ ret' = [op |-> "calculate_fixture_difficulty",
               team_id |-> team_id, opponent_id |-> opponent_id,
               is_home |-> is_home,
               terms |-> difficulty_terms(team_id, opponent_id, is_home, team_form_df),
               value |-> calculate_fixture_difficulty(team_id, opponent_id, is_home,
                                                      team_form_df)]
    /\ UNCHANGED <<teams, current_gw, first_full_gw, api_fixtures, team_form_df, kept, quicksort, scraper_vars>>

(***************************************************************************)
(* The scoring function on its own: the teams and the form table are       *)
(* drawn, then calculate_fixture_difficulty is applied to them.            *)
(***************************************************************************)
InitScore ==
    /\ teams \in {[i \in ScoreTeams |-> Team(i, p[i][1], p[i][2])] :
                  p \in [ScoreTeams -> StrengthPairs]}
    /\ current_gw = None
    /\ first_full_gw = None
    /\ api_fixtures = <<>>
    /\ team_form_df \in FormTables(ScoreTeams)
    /\ ret = NoCall
    /\ kept = NoCall
    /\ quicksort = <<>>
    /\ ScraperIdle

NextScore ==
    \E team_id \in ScoreTeams :
    \E opponent_id \in ScoreTeams \ {team_id}, is_home \in BOOLEAN :
        CalculateFixtureDifficulty(team_id, opponent_id, is_home)

SpecScore == InitScore /\ [][NextScore]_vars

(***************************************************************************)
(* Fixtures                                                                *)
(***************************************************************************)
\* the ids of the teams of the bootstrap data
TeamIds == {1, 2, 3}

\* a row of the fixtures/ endpoint
Fixture(event, team_h, team_a, finished) ==
    [event |-> event, team_h |-> team_h, team_a |-> team_a, finished |-> finished]

\* the fixtures not yet played that the endpoint can list
ScheduledFixtures ==
    {Fixture(e, h, a, FALSE) : e \in 1 .. MaxGW, h \in TeamIds, a \in TeamIds} \
    {Fixture(e, h, h, FALSE) : e \in 1 .. MaxGW, h \in TeamIds}

\* the endpoint lists the fixtures in kickoff order: gameweek by gameweek, no
\* fixture twice; the lists of at most two fixtures are drawn
FixtureLists ==
    {fs \in SeqsUpTo(ScheduledFixtures, 2) :
        \A i \in 1 .. Len(fs) : \A j \in 1 .. Len(fs) :
            i < j => (fs[i].event <= fs[j].event /\ fs[i] # fs[j])}

Min(S) == CHOOSE x \in S : \A y \in S : x <= y

\* a stable sort of <<key, element>> pairs by key
RECURSIVE StableSortPairs(_)
StableSortPairs(ps) ==
    IF ps = <<>> THEN <<>>
    ELSE LET m == Min({ps[i][1] : i \in 1 .. Len(ps)})
         IN  SelectSeq(ps, LAMBDA x : x[1] = m)
             \o StableSortPairs(SelectSeq(ps, LAMBDA x : x[1] # m))

\* a stable sort of s by the gameweek gw(x) of its elements (list.sort, and
\* sort_values on several columns, are stable)
StableSortByGw(s, gw(_)) ==
    LET sorted == StableSortPairs([i \in 1 .. Len(s) |-> <<gw(s[i]), s[i]>>])
    IN  [i \in 1 .. Len(sorted) |-> sorted[i][2]]

\* s[:n]
Take(s, n) == SubSeq(s, 1, IF Len(s) < n THEN Len(s) ELSE n)

RECURSIVE SumSeq(_)
SumSeq(s) == IF s = <<>> THEN 0 ELSE s[1] + SumSeq(Tail(s))

(***************************************************************************)
(* find_first_full_gameweek, get_upcoming_fixtures                         *)
(***************************************************************************)
\* range(self.current_gw, self.current_gw + 10)
LookAhead == 10

\* the teams with an unfinished fixture in gameweek gw
teams_with_fixtures(fixtures_df, gw) ==
    UNION {{fixtures_df[i].team_h, fixtures_df[i].team_a} :
           i \in {j \in 1 .. Len(fixtures_df) :
                    fixtures_df[j].event = gw /\ fixtures_df[j].finished = FALSE}}

\* num_teams >= total_teams * 0.75
is_full_gameweek(fixtures_df, gw) ==
    4 * Cardinality(teams_with_fixtures(fixtures_df, gw))
    >= 3 * Cardinality(DOMAIN teams)

\* the search left out: the current gameweek whatever its fixtures
find_first_full_gameweek_current(fixtures_df) == current_gw

\* the search taken up after the gameweek stored by an earlier call
find_first_full_gameweek_after_stored(fixtures_df) ==
    IF current_gw = None THEN None
    ELSE IF first_full_gw = None THEN current_gw
    ELSE first_full_gw + 1

\* the last full gameweek of the search instead of the first
find_first_full_gameweek_last(fixtures_df) ==
    IF current_gw = None THEN None
    ELSE LET full == {gw \in current_gw .. current_gw + LookAhead - 1 :
                        is_full_gameweek(fixtures_df, gw)}
         IN  IF full # {} THEN CHOOSE gw \in full : \A other \in full : other <= gw
             ELSE current_gw

\* the search over one gameweek more
find_first_full_gameweek_wider(fixtures_df) ==
    IF current_gw = None THEN None
    ELSE LET full == {gw \in current_gw .. current_gw + LookAhead :
                        is_full_gameweek(fixtures_df, gw)}
         IN  IF full # {} THEN Min(full) ELSE current_gw

find_first_full_gameweek(fixtures_df) ==
    IF current_gw = None THEN None
    ELSE LET full == {gw \in current_gw .. current_gw + LookAhead - 1 :
                        is_full_gameweek(fixtures_df, gw)}
         IN  IF full # {} THEN Min(full) ELSE current_gw

\* the filter without its finished == False condition
upcoming_fixtures_with_finished(fixtures_df, first, next_n_gameweeks) ==
    StableSortByGw(
        SelectSeq(fixtures_df,
                  LAMBDA f : /\ f.event >= first
                             /\ f.event < first + next_n_gameweeks),
        LAMBDA f : f.event)

\* the table get_upcoming_fixtures returns once first_full_gw is set to first
upcoming_fixtures(fixtures_df, first, next_n_gameweeks) ==
    StableSortByGw(
        SelectSeq(fixtures_df,
                  LAMBDA f : /\ f.finished = FALSE
                             /\ f.event >= first
                             /\ f.event < first + next_n_gameweeks),
        LAMBDA f : f.event)

(***************************************************************************)
(* analyze_team_fixtures                                                   *)
(***************************************************************************)
\* the fixtures of a team in the upcoming table: the home ones, then the away
\* ones, sorted by gameweek, the first next_n_gameweeks of them
team_fixtures(team_id, upcoming, next_n_gameweeks, form) ==
    LET home_fixtures == SelectSeq(upcoming, LAMBDA f : f.team_h = team_id)
        away_fixtures == SelectSeq(upcoming, LAMBDA f : f.team_a = team_id)
        home == [i \in 1 .. Len(home_fixtures) |->
                    [gw |-> home_fixtures[i].event,
                     opponent |-> home_fixtures[i].team_a,
                     is_home |-> TRUE,
                     difficulty |->
                        calculate_fixture_difficulty(
                            team_id, home_fixtures[i].team_a, TRUE, form)]]
        away == [i \in 1 .. Len(away_fixtures) |->
                    [gw |-> away_fixtures[i].event,
                     opponent |-> away_fixtures[i].team_h,
                     is_home |-> FALSE,
                     difficulty |->
                        calculate_fixture_difficulty(
                            team_id, away_fixtures[i].team_h, FALSE, form)]]
    IN  Take(StableSortByGw(home \o away, LAMBDA x : x.gw), next_n_gameweeks)

\* round(np.mean(difficulty_scores), 2), in hundredths
avg_difficulty(difficulty_scores) ==
    RoundHalfEven(SumSeq(difficulty_scores), Len(difficulty_scores))

\* the row appended to team_fixture_data for a team with fixtures
team_row(team_id, all_fixtures) ==
    LET difficulty_scores == [i \in 1 .. Len(all_fixtures) |-> all_fixtures[i].difficulty]
    IN  [team |-> teams[team_id].name,
         fixture_list |-> [i \in 1 .. Len(all_fixtures) |->
                              <<all_fixtures[i].opponent, all_fixtures[i].is_home>>],
         num_fixtures |-> Len(all_fixtures),
         avg_difficulty |-> avg_difficulty(difficulty_scores),
         total_difficulty |-> SumSeq(difficulty_scores),
         difficulty_scores |-> difficulty_scores]

\* team_fixture_data: a row per team with fixtures, in the iteration order of
\* self.teams (the order of the teams in the bootstrap data: ascending id)
RECURSIVE team_fixture_data(_, _, _, _)
team_fixture_data(ids, upcoming, next_n_gameweeks, form) ==
    IF ids = {} THEN <<>>
    ELSE LET team_id == Min(ids)
             all_fixtures == team_fixtures(team_id, upcoming, next_n_gameweeks, form)
             rest == team_fixture_data(ids \ {team_id}, upcoming, next_n_gameweeks, form)
         IN  IF Len(all_fixtures) > 0
             THEN <<team_row(team_id, all_fixtures)>> \o rest
             ELSE rest

\* sort_values with ascending=False
sort_values_descending(rows) ==
    {[i \in 1 .. Len(rows) |-> rows[p[i]]] :
        p \in {q \in [1 .. Len(rows) -> 1 .. Len(rows)] :
                 /\ \A i \in 1 .. Len(rows) : \A j \in 1 .. Len(rows) :
                        i # j => q[i] # q[j]
                 /\ \A i \in 1 .. Len(rows) : \A j \in 1 .. Len(rows) :
                        i < j => rows[q[i]].avg_difficulty >= rows[q[j]].avg_difficulty}}

\* df.sort_values('avg_difficulty', ascending=True): pandas sorts with its
\* default kind, quicksort, which does not keep the order of equal keys; every
\* ascending arrangement of the rows is a possible outcome
sort_values(rows) ==
    {[i \in 1 .. Len(rows) |-> rows[p[i]]] :
        p \in {q \in [1 .. Len(rows) -> 1 .. Len(rows)] :
                 /\ \A i \in 1 .. Len(rows) : \A j \in 1 .. Len(rows) :
                        i # j => q[i] # q[j]
                 /\ \A i \in 1 .. Len(rows) : \A j \in 1 .. Len(rows) :
                        i < j => rows[q[i]].avg_difficulty <= rows[q[j]].avg_difficulty}}

\* the orders in which a sort can leave the rows of the teams ids when their
\* keys are equal: what the sort does with equal keys is not specified, but
\* it does the same each time it is given the same rows
TieOrders(ids) ==
    {q \in [1 .. Cardinality(ids) -> ids] :
        \A i \in 1 .. Cardinality(ids) : \A j \in 1 .. Cardinality(ids) :
            i # j => q[i] # q[j]}

\* the rows of equal avg_difficulty of df follow order
ties_as(df, order) ==
    \A i \in 1 .. Len(df) : \A j \in 1 .. Len(df) :
        (i < j /\ df[i].avg_difficulty = df[j].avg_difficulty) =>
            \E k \in 1 .. Len(order) : \E l \in 1 .. Len(order) :
                k < l /\ order[k] = df[i].team /\ order[l] = df[j].team

\* df['rank'] = range(1, len(df) + 1)
with_rank(rows) ==
    [i \in 1 .. Len(rows) |->
        [team |-> rows[i].team,
         fixture_list |-> rows[i].fixture_list,
         num_fixtures |-> rows[i].num_fixtures,
         avg_difficulty |-> rows[i].avg_difficulty,
         total_difficulty |-> rows[i].total_difficulty,
         difficulty_scores |-> rows[i].difficulty_scores,
         rank |-> i]]

(***************************************************************************)
(* The analyzer: operations                                                *)
(***************************************************************************)
\* the league of the bootstrap data: teams 1 and 2 have the same strengths
League ==
    [i \in TeamIds |->
        IF i % 3 = 0 THEN Team(i, 1085, 1315) ELSE Team(i, 1200, 1100)]

\* a form table with a row per team, as analyze_fixtures merges it
LeagueForm ==
    DataFrame(FormColumns,
              [i \in TeamIds |->
                  [team |-> i,
                   goals_conceded_per_game |-> Num(125 * (i % (MaxFormLevel + 1))),
                   goals_per_game |-> Num(125 * ((i + 1) % (MaxFormLevel + 1)))]])

\* initialize(): the teams and the current (or next) gameweek of the bootstrap
\* data; current_gw stays None when no event is current or next
Initialize(league, gw) ==
    /\ teams = <<>>
    /\ teams' = league
    /\ current_gw' = gw
    /\ ret' = [op |-> "initialize"]
    /\ UNCHANGED <<first_full_gw, api_fixtures, team_form_df, kept, quicksort, scraper_vars>>

\* get_upcoming_fixtures(next_n_gameweeks)
GetUpcomingFixtures(next_n_gameweeks) ==
    IF current_gw = None
    THEN /\ ret' = [op |-> "get_upcoming_fixtures", n |-> next_n_gameweeks,
                    upcoming |-> <<>>]
         /\ UNCHANGED <<teams, current_gw, first_full_gw, api_fixtures, team_form_df, kept, quicksort, scraper_vars>>
    ELSE LET first == find_first_full_gameweek(api_fixtures)
         IN  /\ first_full_gw' = first
             /\ ret' = [op |-> "get_upcoming_fixtures", n |-> next_n_gameweeks,
                        upcoming |->
                            upcoming_fixtures(api_fixtures, first, next_n_gameweeks)]
             /\ UNCHANGED <<teams, current_gw, api_fixtures, team_form_df, kept, quicksort, scraper_vars>>

\* analyze_team_fixtures(next_n_gameweeks, team_form_df)
AnalyzeTeamFixtures(next_n_gameweeks) ==
    IF current_gw = None
    THEN /\ ret' = [op |-> "analyze_team_fixtures", n |-> next_n_gameweeks,
                    table |-> <<>>]
         /\ UNCHANGED <<teams, current_gw, first_full_gw, api_fixtures, team_form_df, kept, quicksort, scraper_vars>>
    ELSE LET first == find_first_full_gameweek(api_fixtures)
             upcoming == upcoming_fixtures(api_fixtures, first, next_n_gameweeks)
             data == team_fixture_data(DOMAIN teams, upcoming, next_n_gameweeks,
                                       team_form_df)
         IN  /\ first_full_gw' = first
             /\ \E df \in sort_values(data) :
                    /\ ties_as(df, quicksort)
                    /\ ret' = [op |-> "analyze_team_fixtures", n |-> next_n_gameweeks,
                                table |-> with_rank(df)]
             /\ UNCHANGED <<teams, current_gw, api_fixtures, team_form_df, kept, quicksort, scraper_vars>>

\* the fixture provider marks a fixture finished
FinishFixture(i) ==
    /\ i \in 1 .. Len(api_fixtures)
    /\ api_fixtures[i].finished = FALSE
    /\ api_fixtures' = [api_fixtures EXCEPT ![i].finished = TRUE]
    /\ UNCHANGED <<teams, current_gw, first_full_gw, team_form_df, ret, kept, quicksort, scraper_vars>>

(***************************************************************************)
(* The analyzer from its construction on                                   *)
(***************************************************************************)
Init ==
    /\ teams = <<>>
    /\ current_gw = None
    /\ first_full_gw = None
    /\ api_fixtures \in FixtureLists
    /\ team_form_df \in {NoForm, LeagueForm}
    /\ ret = NoCall
    /\ kept = NoCall
    /\ quicksort \in TieOrders(TeamIds)
    /\ ScraperIdle

Next ==
    \/ \E gw \in {None} \cup (1 .. MaxGW) : Initialize(League, gw)
    \/ \E n \in 1 .. MaxN : GetUpcomingFixtures(n)
    \/ \E n \in 1 .. MaxN : AnalyzeTeamFixtures(n)
    \/ \E team_id \in TeamIds : \E opponent_id \in TeamIds \ {team_id}, is_home \in BOOLEAN :
            CalculateFixtureDifficulty(team_id, opponent_id, is_home)
    \/ \E i \in 1 .. Len(api_fixtures) : FinishFixture(i)

Spec == Init /\ [][Next]_vars

(***************************************************************************)
(* The analyzer with a caller that keeps the first score it is given and   *)
(* goes on calling; the endpoint lists at most one fixture.                *)
(***************************************************************************)
\* the caller keeps the score just returned, with the inputs of the call
KeepScore ==
    /\ kept = NoCall
    /\ ScraperIdle
    /\ ret.op = "calculate_fixture_difficulty"
    /\ kept' = [team_id |-> ret.team_id, opponent_id |-> ret.opponent_id,
                is_home |-> ret.is_home, value |-> ret.value,
                first_full_gw |-> first_full_gw]
    /\ UNCHANGED <<teams, current_gw, first_full_gw, api_fixtures, team_form_df, ret, quicksort, scraper_vars>>

InitCalls == Init /\ Len(api_fixtures) <= 1

NextCalls == Next \/ KeepScore

SpecCalls == InitCalls /\ [][NextCalls]_vars

(***************************************************************************)
(* The ranking on its own: an initialized analyzer and a fixture list are  *)
(* drawn, then analyze_team_fixtures is applied to them.                   *)
(***************************************************************************)
InitRank ==
    /\ teams = League
    /\ current_gw \in 1 .. MaxGW
    /\ first_full_gw = None
    /\ api_fixtures \in
          {[i \in 1 .. Len(fs) |-> [fs[i] EXCEPT !.finished = (i \in done)]] :
              <<fs, done>> \in FixtureLists \X SUBSET (1 .. 2)}
    /\ team_form_df \in {NoForm, LeagueForm}
    /\ ret = NoCall
    /\ kept = NoCall
    /\ quicksort \in TieOrders(TeamIds)
    /\ ScraperIdle

NextRank == \E n \in 1 .. MaxN : AnalyzeTeamFixtures(n)

SpecRank == InitRank /\ [][NextRank]_vars

(***************************************************************************)
(* Claims about calculate_fixture_difficulty (checked under SpecScore)     *)
(***************************************************************************)
IsCalc == ret.op = "calculate_fixture_difficulty"

\* the opponent and the team of the call recorded in ret
CallOpponent == teams[ret.opponent_id]
CallTeam == teams[ret.team_id]

\* the opponent overall strength the venue selects (S of the formula)
CallStrength ==
    IF ret.is_home THEN CallOpponent.strength_overall_away
    ELSE CallOpponent.strength_overall_home

\* the first row of the form table for a team name, when there is one
HasRow(name) == HasForm(team_form_df) /\ Len(RowsOf(team_form_df, name)) > 0
FirstRow(name) == RowsOf(team_form_df, name)[1]

\* the per-game value col is available for the team: a row with a number in it
Available(name, col) ==
    /\ HasRow(name)
    /\ col \in team_form_df.columns
    /\ FirstRow(name)[col] # NaN

\* the per-game value col is unavailable in one of the three ways of C7:
\* no table, no row of the team, or a row without the field
Unavailable(name, col) ==
    \/ ~HasForm(team_form_df)
    \/ ~HasRow(name)
    \/ col \notin team_form_df.columns

Clamp(x, lo, hi) == IF x < lo THEN lo ELSE IF x > hi THEN hi ELSE x

\* C1: every value returned lies in [1.0, 5.0], whatever the strengths in
\* [0, 2000], the venue and the form table (absent, empty, any cells, NaN)
C1_ScoreInRange == IsCalc => (ret.value >= 100 /\ ret.value <= 500)

\* C1 witnesses: a call with a form table that is clamped at either end
C1_Witness ==
    /\ IsCalc
    /\ HasRow(CallOpponent.name)
    /\ weighted_difficulty(ret.terms) > 5 * Unit
    /\ ret.value = 500

C3_Example ==
    /\ IsCalc
    /\ ret.is_home
    /\ CallTeam.strength_overall_home = 1200
    /\ CallTeam.strength_overall_away = 1100
    /\ CallOpponent.strength_overall_away = 1300
    /\ ~HasForm(team_form_df)

\* C3 as claimed: the example totals 6.0 before clamping and returns 5.0
C3_Example_Claimed ==
    C3_Example => (weighted_difficulty(ret.terms) = 6 * Unit /\ ret.value = 500)

\* C3 amended: the example totals 0.4 * 6.5 - 0.5 = 2.1 before clamping and
\* returns 2.1
C3_ExampleValue ==
    C3_Example =>
        /\ ret.terms.base_difficulty = (65 * Unit) \div 10
        /\ ret.terms.home_advantage = 0 - Unit \div 2
        /\ weighted_difficulty(ret.terms) = (21 * Unit) \div 10
        /\ ret.value = 210

\* C3 witness: the example has been scored
C3_Witness == C3_Example

\* the terms of the formula of C4, in 1/Unit, from the per-game values in
\* hundredths: D, A and F of an available value, 0 of an absent table or row
C4_D == IF HasRow(CallOpponent.name)
        THEN Clamp(((200 - FirstRow(CallOpponent.name).goals_conceded_per_game[1])
                    * Unit) \div 150, 0, Unit)
        ELSE 0
C4_A == IF HasRow(CallOpponent.name)
        THEN Clamp(((FirstRow(CallOpponent.name).goals_per_game[1] - 50) * Unit)
                   \div 200, 0, Unit)
        ELSE 0
C4_F == IF HasRow(CallTeam.name)
        THEN 0 - Clamp(((FirstRow(CallTeam.name).goals_per_game[1] - 100) * Unit)
                       \div 200, 0, Unit \div 2)
        ELSE 0
C4_V == IF ret.is_home THEN 0 - Unit \div 2 ELSE Unit \div 2

\* every per-game value the formula of C4 reads is a number
C4_Defined ==
    /\ HasRow(CallOpponent.name) =>
          /\ Available(CallOpponent.name, "goals_conceded_per_game")
          /\ Available(CallOpponent.name, "goals_per_game")
    /\ HasRow(CallTeam.name) => Available(CallTeam.name, "goals_per_game")

\* C4: the value returned is round2(clamp(0.4*(5*S/1000) + V + 0.8*D + 0.4*A
\* + F, 1.0, 5.0)) with S the venue-selected opponent strength
C4_ClosedForm ==
    (IsCalc /\ C4_Defined) =>
        ret.value =
            Round2(Clamp((4 * ((5 * CallStrength * Unit) \div 1000)) \div 10
                         + C4_V + (8 * C4_D) \div 10 + (4 * C4_A) \div 10 + C4_F,
                         Unit, 5 * Unit))

\* C4 witness: a call where all three form terms are read from the table, are
\* not zero, and the sum is not clamped
C4_Witness ==
    /\ IsCalc
    /\ C4_Defined
    /\ HasRow(CallOpponent.name)
    /\ HasRow(CallTeam.name)
    /\ C4_D > 0 /\ C4_A > 0 /\ C4_F < 0
    /\ ret.value > 100 /\ ret.value < 500

\* C5: without a form table (None or empty) the three form terms are 0 and
\* the value is round2(clamp(0.4*(5*S/1000) + V, 1.0, 5.0))
C5_NoFormTable ==
    (IsCalc /\ ~HasForm(team_form_df)) =>
        /\ ret.terms.defensive_difficulty = 0
        /\ ret.terms.attacking_threat = 0
        /\ ret.terms.team_form_factor = 0
        /\ ret.value =
              Round2(Clamp((4 * ((5 * CallStrength * Unit) \div 1000)) \div 10 + C4_V,
                           Unit, 5 * Unit))

\* C5 witnesses: a call with None, and a call with an empty table, that is
\* not clamped
C5_Witness ==
    /\ IsCalc
    /\ team_form_df.kind = "DataFrame"
    /\ Len(team_form_df.rows) = 0
    /\ ret.value > 100 /\ ret.value < 500

\* C6 as claimed: the defensive-form sub-score of the call is at most the
\* sub-score of any opponent conceding at least as much
C6_DefensiveRising_Claimed ==
    (IsCalc /\ Available(CallOpponent.name, "goals_conceded_per_game")) =>
        \A g2 \in FormValues :
            FirstRow(CallOpponent.name).goals_conceded_per_game[1] <= g2
            => ret.terms.defensive_difficulty <= defensive_norm(Num(g2))

\* C6 amended: the defensive-form sub-score is lower when the opponent
\* concedes more: for g1 <= g2, sub-score(g1) >= sub-score(g2)
C6_DefensiveFalling ==
    (IsCalc /\ Available(CallOpponent.name, "goals_conceded_per_game")) =>
        \A g2 \in FormValues :
            FirstRow(CallOpponent.name).goals_conceded_per_game[1] <= g2
            => ret.terms.defensive_difficulty >= defensive_norm(Num(g2))

\* C6 witness: a call whose opponent's sub-score is strictly above that of an
\* opponent conceding more
C6_Witness ==
    /\ IsCalc
    /\ Available(CallOpponent.name, "goals_conceded_per_game")
    /\ \E g2 \in FormValues :
          /\ FirstRow(CallOpponent.name).goals_conceded_per_game[1] < g2
          /\ ret.terms.defensive_difficulty > defensive_norm(Num(g2))

\* C7 as claimed: each form term is 0 whenever its input is unavailable (no
\* table, no row of the team, or a row without the field)
C7_UnavailableIsZero ==
    IsCalc =>
        /\ Unavailable(CallOpponent.name, "goals_conceded_per_game")
              => ret.terms.defensive_difficulty = 0
        /\ Unavailable(CallOpponent.name, "goals_per_game")
              => ret.terms.attacking_threat = 0
        /\ Unavailable(CallTeam.name, "goals_per_game")
              => ret.terms.team_form_factor = 0

(***************************************************************************)
(* Claims about the analyzer (Spec) and the ranking (SpecRank)             *)
(***************************************************************************)

\* C8: calculate_fixture_difficulty is deterministic: a call with the team,
\* opponent and venue of an earlier call (same team strengths, same form
\* table) returns the value the earlier call returned, whatever calls
\* (get_upcoming_fixtures and analyze_team_fixtures included) were made between
C8_Deterministic ==
    (/\ IsCalc
     /\ kept # NoCall
     /\ ret.team_id = kept.team_id
     /\ ret.opponent_id = kept.opponent_id
     /\ ret.is_home = kept.is_home)
    => ret.value = kept.value

\* C8 witness: a second call with the inputs of a kept one, made after a call
\* in between has changed first_full_gw on the analyzer
C8_Witness ==
    /\ IsCalc
    /\ kept # NoCall
    /\ ret.team_id = kept.team_id
    /\ ret.opponent_id = kept.opponent_id
    /\ ret.is_home = kept.is_home
    /\ kept.first_full_gw # first_full_gw

IsRank == ret.op = "analyze_team_fixtures"

Abs(x) == IF x < 0 THEN 0 - x ELSE x

\* the rows of the returned table are in ascending order of avg_difficulty and
\* rank counts them 1..n
C9_Ordered ==
    /\ \A i \in 1 .. Len(ret.table) : \A j \in 1 .. Len(ret.table) :
          i < j => ret.table[i].avg_difficulty <= ret.table[j].avg_difficulty
    /\ \A i \in 1 .. Len(ret.table) : ret.table[i].rank = i

\* the difficulty_scores of a row are the scores of the fixtures it lists
C9_ScoresOfFixtures(row) ==
    /\ Len(row.difficulty_scores) = row.num_fixtures
    /\ Len(row.fixture_list) = row.num_fixtures
    /\ row.num_fixtures >= 1
    /\ \A k \in 1 .. row.num_fixtures :
          row.difficulty_scores[k] =
              calculate_fixture_difficulty(row.team, row.fixture_list[k][1],
                                           row.fixture_list[k][2], team_form_df)

\* C9 as claimed: avg_difficulty is the mean of the row's per-fixture scores,
\* the rows are in ascending order of avg_difficulty, and rank is 1..n
C9_MeanAndOrder_Claimed ==
    IsRank =>
        /\ \A i \in 1 .. Len(ret.table) :
              /\ C9_ScoresOfFixtures(ret.table[i])
              /\ ret.table[i].avg_difficulty * ret.table[i].num_fixtures
                 = SumSeq(ret.table[i].difficulty_scores)
        /\ C9_Ordered

\* C9 amended: avg_difficulty is the mean of the row's per-fixture scores
\* rounded to two decimals (within half a hundredth of the mean), the rows are
\* in ascending order of avg_difficulty, and rank is 1..n
C9_MeanAndOrder ==
    IsRank =>
        /\ \A i \in 1 .. Len(ret.table) :
              /\ C9_ScoresOfFixtures(ret.table[i])
              /\ 2 * Abs(ret.table[i].avg_difficulty * ret.table[i].num_fixtures
                         - SumSeq(ret.table[i].difficulty_scores))
                 <= ret.table[i].num_fixtures
        /\ C9_Ordered

\* C9 witness: a table of several rows with different averages, one of them
\* the rounded mean of two different scores
C9_Witness ==
    /\ IsRank
    /\ Len(ret.table) >= 2
    /\ ret.table[1].avg_difficulty < ret.table[Len(ret.table)].avg_difficulty
    /\ \E i \in 1 .. Len(ret.table) :
          /\ ret.table[i].num_fixtures = 2
          /\ ret.table[i].difficulty_scores[1] # ret.table[i].difficulty_scores[2]
          /\ ret.table[i].avg_difficulty * 2 # SumSeq(ret.table[i].difficulty_scores)

\* C10 as claimed: two rows of equal avg_difficulty are in the order in which
\* self.teams iterates their teams (ascending id)
C10_StableTies ==
    IsRank =>
        \A i \in 1 .. Len(ret.table) : \A j \in 1 .. Len(ret.table) :
            (i < j /\ ret.table[i].avg_difficulty = ret.table[j].avg_difficulty)
            => ret.table[i].team < ret.table[j].team

\* the teams with an unfinished fixture of the list in one of the n gameweeks
\* from first_full_gw on
TeamsInRange(n) ==
    {t \in DOMAIN teams :
        \E i \in 1 .. Len(api_fixtures) :
            /\ api_fixtures[i].finished = FALSE
            /\ api_fixtures[i].event >= first_full_gw
            /\ api_fixtures[i].event < first_full_gw + n
            /\ t \in {api_fixtures[i].team_h, api_fixtures[i].team_a}}

\* the teams with a row in the returned table
ListedTeams == {ret.table[i].team : i \in 1 .. Len(ret.table)}

\* C11: a team has a row in the table of analyze_team_fixtures if and only if
\* it has an unfinished fixture in the analysed gameweek range; no team has two
\* rows and no row is a placeholder without fixtures
C11_ListedIffFixture ==
    IsRank =>
        /\ ListedTeams = TeamsInRange(ret.n)
        /\ Cardinality(ListedTeams) = Len(ret.table)
        /\ \A i \in 1 .. Len(ret.table) : ret.table[i].num_fixtures >= 1

\* C11 witness: a table with a row, and a team left out of it although the
\* list has a fixture of it (finished, or outside the range)
C11_Witness ==
    /\ IsRank
    /\ Len(ret.table) >= 1
    /\ \E t \in DOMAIN teams \ ListedTeams :
          \E i \in 1 .. Len(api_fixtures) :
              t \in {api_fixtures[i].team_h, api_fixtures[i].team_a}

(***************************************************************************)
(* The gameweek window: a league of four teams, lists of up to three       *)
(* fixtures, some of them in a gameweek beyond the look-ahead of           *)
(* gameweek 1; get_upcoming_fixtures and analyze_team_fixtures are applied.*)
(***************************************************************************)
WideTeamIds == {1, 2, 3, 4}

WideLeague ==
    [i \in WideTeamIds |->
        IF i % 2 = 0 THEN Team(i, 1085, 1315) ELSE Team(i, 1200, 1100)]

\* the first gameweek that range(1, 1 + 10) does not reach
LateGW == 1 + LookAhead

\* the fixtures the endpoint can list (the lower id at home)
WideFixtures ==
    {f \in {Fixture(e, h, a, FALSE) :
                e \in (1 .. MaxGW) \cup {LateGW}, h \in WideTeamIds, a \in WideTeamIds} :
        f.team_h < f.team_a}

\* lists in kickoff order, no fixture twice
WideFixtureLists ==
    {fs \in SeqsUpTo(WideFixtures, 3) :
        \A i \in 1 .. Len(fs) : \A j \in 1 .. Len(fs) :
            i < j => (fs[i].event <= fs[j].event /\ fs[i] # fs[j])}

\* the first played fixtures of the list are finished
InitWindow ==
    /\ teams = WideLeague
    /\ current_gw \in 1 .. MaxGW
    /\ first_full_gw = None
    /\ api_fixtures \in
          {[i \in 1 .. Len(fs) |-> [fs[i] EXCEPT !.finished = (i <= played)]] :
              <<fs, played>> \in WideFixtureLists \X (0 .. 3)}
    /\ team_form_df = NoForm
    /\ ret = NoCall
    /\ kept = NoCall
    /\ quicksort = <<1, 2, 3, 4>>
    /\ ScraperIdle

NextWindow ==
    \/ \E n \in 1 .. MaxN : GetUpcomingFixtures(n)
    \/ \E n \in 1 .. MaxN : AnalyzeTeamFixtures(n)

SpecWindow == InitWindow /\ [][NextWindow]_vars

(***************************************************************************)
(* Claims about the fixtures counted (checked under SpecWindow)            *)
(***************************************************************************)
IsUpcoming == ret.op = "get_upcoming_fixtures"

\* at least 75% of all teams have an unfinished fixture in gameweek g
FullGameweek(g) ==
    4 * Cardinality({t \in DOMAIN teams :
                        \E i \in 1 .. Len(api_fixtures) :
                            /\ api_fixtures[i].event = g
                            /\ api_fixtures[i].finished = FALSE
                            /\ t \in {api_fixtures[i].team_h, api_fixtures[i].team_a}})
    >= 3 * Cardinality(DOMAIN teams)

\* the unfinished fixtures of team t in gameweeks at or after first_full_gw,
\* in the order of the list (gameweek by gameweek)
FixturesFromFirstFull(t) ==
    SelectSeq(api_fixtures,
              LAMBDA f : /\ f.finished = FALSE
                         /\ f.event >= first_full_gw
                         /\ t \in {f.team_h, f.team_a})

\* the fixtures analyze_team_fixtures(ret.n) scores for team t
Scored(t) ==
    team_fixtures(t, upcoming_fixtures(api_fixtures, first_full_gw, ret.n),
                  ret.n, team_form_df)

\* C12 as claimed: when first_full_gw is a full gameweek, a team with at least
\* N unfinished fixtures from it on has exactly N fixtures scored, in the
\* gameweeks of its N earliest such fixtures
C12_NextNFixtures ==
    (IsRank /\ FullGameweek(first_full_gw)) =>
        \A t \in DOMAIN teams :
            Len(FixturesFromFirstFull(t)) >= ret.n =>
                /\ Len(Scored(t)) = ret.n
                /\ \E i \in 1 .. Len(ret.table) :
                      ret.table[i].team = t /\ ret.table[i].num_fixtures = ret.n
                /\ \A k \in 1 .. ret.n :
                      Scored(t)[k].gw = FixturesFromFirstFull(t)[k].event

\* the fixture <<opponent, is_home>> of team t is an unfinished fixture of the
\* list in a gameweek at or after g
CountedFrom(t, fx, g) ==
    \E i \in 1 .. Len(api_fixtures) :
        /\ api_fixtures[i].finished = FALSE
        /\ api_fixtures[i].event >= g
        /\ api_fixtures[i].team_h = (IF fx[2] THEN t ELSE fx[1])
        /\ api_fixtures[i].team_a = (IF fx[2] THEN fx[1] ELSE t)

\* every fixture counted by the call in ret is unfinished and in a gameweek
\* at or after g
AllCountedFrom(g) ==
    /\ IsUpcoming =>
          \A i \in 1 .. Len(ret.upcoming) :
              ret.upcoming[i].finished = FALSE /\ ret.upcoming[i].event >= g
    /\ IsRank =>
          \A i \in 1 .. Len(ret.table) :
              \A k \in 1 .. Len(ret.table[i].fixture_list) :
                  CountedFrom(ret.table[i].team, ret.table[i].fixture_list[k], g)

\* the gameweeks from current_gw on in which at least 75% of the teams have an
\* unfinished fixture
FullFromCurrent == {g \in current_gw .. LateGW : FullGameweek(g)}

\* C13 as claimed: when some gameweek g >= current_gw has an unfinished fixture
\* for at least 75% of the teams, first_full_gw is the first such g and every
\* fixture counted is unfinished and not earlier than g
C13_FirstFull_Claimed ==
    ((IsRank \/ IsUpcoming) /\ FullFromCurrent # {}) =>
        /\ first_full_gw = Min(FullFromCurrent)
        /\ AllCountedFrom(Min(FullFromCurrent))

\* C13 amended: first_full_gw is the first gameweek g among the ten gameweeks
\* current_gw .. current_gw + 9 in which at least 75% of the teams have an
\* unfinished fixture, and current_gw when none of the ten is one; every
\* fixture counted is unfinished and not earlier than first_full_gw
C13_FirstFull ==
    (IsRank \/ IsUpcoming) =>
        /\ first_full_gw >= current_gw
        /\ first_full_gw <= current_gw + 9
        /\ \A g \in current_gw .. first_full_gw - 1 : ~FullGameweek(g)
        /\ \/ FullGameweek(first_full_gw)
           \/ /\ first_full_gw = current_gw
              /\ \A g \in current_gw .. current_gw + 9 : ~FullGameweek(g)
        /\ AllCountedFrom(first_full_gw)

\* C13 witness: a ranking that skipped the current gameweek, which still has
\* an unfinished fixture, for a later full gameweek
C13_Witness ==
    /\ IsRank
    /\ Len(ret.table) >= 3
    /\ first_full_gw > current_gw
    /\ FullGameweek(first_full_gw)
    /\ \E i \in 1 .. Len(api_fixtures) :
          api_fixtures[i].event = current_gw /\ api_fixtures[i].finished = FALSE

(***************************************************************************)
(* The player-form scraper (src/utils/scraper.py, class                    *)
(* ComprehensiveFPLScraper).  Of the statistics of a match the model keeps *)
(* minutes and total_points; the code treats every other statistic as it   *)
(* treats total_points.  Names, teams and positions are numbered in their  *)
(* sort order.  Sums are integers; a per-90 rate is an exact fraction      *)
(* <<numerator, denominator>> in lowest terms (the code's floats are not   *)
(* rounded in the model).                                                  *)
(***************************************************************************)
MaxMatches == 6        \* player 1 has up to MaxMatches matches

\* windows=[3, 5, 10]
Windows == {3, 5, 10}

\* a DataFrame variable of scrape_all_data not yet assigned
NoFrame == [kind |-> "None"]

RECURSIVE GCD(_, _)
GCD(a, b) == IF b = 0 THEN a ELSE GCD(b, a % b)

\* the fraction n / d (d > 0) in lowest terms
Rat(n, d) == LET g == GCD(Abs(n), d) IN <<n \div g, d \div g>>

\* a - b, a > 1
RatMinus(a, b) == Rat(a[1] * b[2] - b[1] * a[2], a[2] * b[2])
RatAboveOne(a) == a[1] > a[2]

\* an entry of self.players (price in tenths: now_cost)
PlayerInfo(id, full_name, team) ==
    [id |-> id, name |-> full_name, full_name |-> full_name, team |-> team,
     position |-> 3, price |-> 50]

\* the squads of the bootstrap data: player 1, and a player 2 who shares the
\* name, the team, both or neither with player 1
PlayerIds == {1, 2}

Squads ==
    {[i \in PlayerIds |-> IF i = 1 THEN PlayerInfo(1, 1, 1) ELSE PlayerInfo(2, n, t)] :
        n \in 1 .. 2, t \in 1 .. 2}

\* what a match of a history can be: <<minutes, total_points, was_home>>,
\* was_home 1 for true and 0 for false
MatchLines == {<<90, 5, 1>>, <<90, 2, 0>>, <<0, 0, 1>>}

\* the 'history' of element-summary: the matches in the order of their
\* rounds 1, 2, ..; the last one listed is of round last_round
ApiHistory(lines, last_round) ==
    [k \in 1 .. Len(lines) |->
        [fixture |-> k,
         round |-> IF k = Len(lines) THEN last_round ELSE k,
         minutes |-> lines[k][1],
         total_points |-> lines[k][2],
         was_home |-> lines[k][3]]]

\* player 1: up to MaxMatches matches, the last listed of its own round or
\* (a rearranged match) of round 1; player 2: no match or one match
Histories ==
    {[i \in PlayerIds |-> IF i = 1 THEN h1 ELSE h2] :
        h1 \in UNION {{ApiHistory(ls, Len(ls)), ApiHistory(ls, 1)} :
                        ls \in SeqsUpTo(MatchLines, MaxMatches)},
        h2 \in {ApiHistory(ls, 1) : ls \in SeqsUpTo(MatchLines, 1)}}

MatchColumns ==
    {"fixture", "round", "minutes", "total_points", "venue", "points_per90",
     "player_id", "player_name", "full_name", "player_team", "position",
     "player_price"}

\* pd.to_numeric(df[col], errors='coerce').fillna(0): a null becomes 0, a
\* number stays what it is
to_numeric_fillna(x) == IF x = None THEN 0 ELSE x

\* df['was_home'].map({True: 'Home', False: 'Away', 1: 'Home', 0: 'Away'}):
\* a flag that is no key of the map gives NaN
venue_of(was_home) ==
    CASE was_home = 1 -> "Home"
      [] was_home = 0 -> "Away"
      [] OTHER -> "NaN"

\* df['minutes'].replace(0, 1)
minutes_safe(minutes) == IF minutes = 0 THEN 1 ELSE minutes

\* (df[stat] / df['minutes_safe']) * 90
match_per90(stat, minutes) ==
    LET safe == minutes_safe(minutes)
    IN  IF safe > 0 THEN Rat(stat * 90, safe) ELSE Rat(0 - stat * 90, 0 - safe)

\* get_player_match_history(player_id): the rows of the history with the
\* player's info and the venue
get_player_match_history(player_id) ==
    [k \in 1 .. Len(history[player_id]) |->
        [fixture |-> history[player_id][k].fixture,
         round |-> history[player_id][k].round,
         minutes |-> to_numeric_fillna(history[player_id][k].minutes),
         total_points |-> to_numeric_fillna(history[player_id][k].total_points),
         venue |-> venue_of(to_numeric_fillna(history[player_id][k].was_home)),
         points_per90 |->
            match_per90(to_numeric_fillna(history[player_id][k].total_points),
                        to_numeric_fillna(history[player_id][k].minutes)),
         player_id |-> player_id,
         player_name |-> players[player_id].name,
         full_name |-> players[player_id].full_name,
         player_team |-> players[player_id].team,
         position |-> players[player_id].position,
         player_price |-> players[player_id].price]]

\* scrape_player_data(): the histories concatenated in the order of
\* self.players; an empty DataFrame when there is none
RECURSIVE concat_histories(_)
concat_histories(ids) ==
    IF ids = {} THEN <<>>
    ELSE get_player_match_history(Min(ids)) \o concat_histories(ids \ {Min(ids)})

scrape_player_data ==
    LET rows == concat_histories(DOMAIN players)
    IN  IF rows = <<>> THEN DataFrame({}, <<>>) ELSE DataFrame(MatchColumns, rows)

(***************************************************************************)
(* calculate_rolling_metrics                                               *)
(***************************************************************************)
\* the key of groupby(['full_name','player_price','player_name',
\* 'player_team','position'])
GroupKey(r) ==
    <<r.full_name, r.player_price, r.player_name, r.player_team, r.position>>

\* a window of the rows from position i on
rolling_sum_forward(group, col, window, i) ==
    LET hi == IF i + window - 1 > Len(group) THEN Len(group) ELSE i + window - 1
    IN  SumSeq([k \in 1 .. (hi - i + 1) |-> group[i + k - 1][col]])

\* group[col].rolling(window, min_periods=1).sum() at position i
rolling_sum(group, col, window, i) ==
    LET lo == IF i - window + 1 < 1 THEN 1 ELSE i - window + 1
    IN  SumSeq([k \in 1 .. (i - lo + 1) |-> group[lo + k - 1][col]])

\* the rate without the factor 90
per90_per_minute(stat, minutes) ==
    IF minutes > 0 THEN Rat(stat, minutes) ELSE Rat(0, 1)

\* np.where(minutes > 0, stat * 90 / minutes, 0)
per90(stat, minutes) ==
    IF minutes > 0 THEN Rat(stat * 90, minutes) ELSE Rat(0, 1)

RollingColumns ==
    MatchColumns \cup {"points_last", "minutes_last", "points_per90_last"}

\* calc_rolling(group): the rows of the group with points_last_<w>,
\* minutes_last_<w> and points_per90_last_<w> for each window w
calc_rolling(group) ==
    [i \in 1 .. Len(group) |->
        [fixture |-> group[i].fixture,
         round |-> group[i].round,
         minutes |-> group[i].minutes,
         total_points |-> group[i].total_points,
         venue |-> group[i].venue,
         points_per90 |-> group[i].points_per90,
         player_id |-> group[i].player_id,
         player_name |-> group[i].player_name,
         full_name |-> group[i].full_name,
         player_team |-> group[i].player_team,
         position |-> group[i].position,
         player_price |-> group[i].player_price,
         points_last |-> [w \in Windows |-> rolling_sum(group, "total_points", w, i)],
         minutes_last |-> [w \in Windows |-> rolling_sum(group, "minutes", w, i)],
         points_per90_last |->
            [w \in Windows |-> per90(rolling_sum(group, "total_points", w, i),
                                     rolling_sum(group, "minutes", w, i))]]]

\* df.sort_values(['full_name', 'round']): a sort on several columns keeps the
\* order of rows with equal keys
sort_by_name_and_round(rows) ==
    StableSortByGw(StableSortByGw(rows, LAMBDA r : r.round),
                   LAMBDA r : r.full_name)

\* calculate_rolling_metrics(df): the sorted rows, each with the columns
\* calc_rolling gives it within its group
calculate_rolling_metrics(df) ==
    LET sorted == sort_by_name_and_round(df.rows)
        row(i) ==
            LET group == SelectSeq(sorted, LAMBDA r : GroupKey(r) = GroupKey(sorted[i]))
                pos == Cardinality({j \in 1 .. i : GroupKey(sorted[j]) = GroupKey(sorted[i])})
            IN  calc_rolling(group)[pos]
    IN  DataFrame(RollingColumns, [i \in 1 .. Len(sorted) |-> row(i)])

(***************************************************************************)
(* calculate_home_away_splits, aggregate_player_stats                      *)
(***************************************************************************)
\* the order in which groupby lists its groups: by the key columns in turn
KeyLess(a, b) ==
    \E k \in 1 .. 5 : a[k] < b[k] /\ \A j \in 1 .. k - 1 : a[j] = b[j]

RECURSIVE SortedKeys(_)
SortedKeys(keys) ==
    IF keys = {} THEN <<>>
    ELSE LET first == CHOOSE a \in keys : \A b \in keys \ {a} : KeyLess(a, b)
         IN  <<first>> \o SortedKeys(keys \ {first})

\* the groups of rows by GroupKey, in the order of their keys, each in the
\* order of the rows
Groups(rows) ==
    LET keys == SortedKeys({GroupKey(rows[i]) : i \in 1 .. Len(rows)})
    IN  [g \in 1 .. Len(keys) |-> SelectSeq(rows, LAMBDA r : GroupKey(r) = keys[g])]

Column(group, col) == [i \in 1 .. Len(group) |-> group[i][col]]

\* home_stats or away_stats: a row per group of the rows of the venue
venue_stats(df, venue) ==
    LET groups == Groups(SelectSeq(df.rows, LAMBDA r : r.venue = venue))
    IN  [g \in 1 .. Len(groups) |->
            [full_name |-> groups[g][1].full_name,
             player_team |-> groups[g][1].player_team,
             minutes |-> SumSeq(Column(groups[g], "minutes")),
             points |-> SumSeq(Column(groups[g], "total_points")),
             games |-> Len(groups[g]),
             points_per90 |-> per90(SumSeq(Column(groups[g], "total_points")),
                                    SumSeq(Column(groups[g], "minutes")))]]

\* the row of a left merge for a left row without a match, after fillna(0)
NoVenueStats ==
    [full_name |-> None, player_team |-> None, minutes |-> 0, points |-> 0,
     games |-> 0, points_per90 |-> Rat(0, 1)]

\* season_agg before the merges: a row per group; the *_last_5 columns are
\* those of the last row of the group
season_groups(df) ==
    LET groups == Groups(df.rows)
    IN  [g \in 1 .. Len(groups) |->
            [full_name |-> groups[g][1].full_name,
             player_price |-> groups[g][1].player_price,
             player_name |-> groups[g][1].player_name,
             player_team |-> groups[g][1].player_team,
             position |-> groups[g][1].position,
             fixtures_played |-> Len(groups[g]),
             total_minutes |-> SumSeq(Column(groups[g], "minutes")),
             total_points |-> SumSeq(Column(groups[g], "total_points")),
             points_last_5 |-> groups[g][Len(groups[g])].points_last[5],
             minutes_last_5 |-> groups[g][Len(groups[g])].minutes_last[5],
             points_per90_last_5 |-> groups[g][Len(groups[g])].points_per90_last[5]]]

RECURSIVE Flatten(_)
Flatten(ss) == IF ss = <<>> THEN <<>> ELSE ss[1] \o Flatten(Tail(ss))

\* left.merge(right, on='full_name', how='left'), left given by the
\* full_name of its rows: for each left row, in order, a pair <<index of the
\* left row, right row>> per right row of that full_name, or one pair with no
\* match
merge_on_full_name(left_names, right) ==
    Flatten([i \in 1 .. Len(left_names) |->
        LET matches == SelectSeq(right, LAMBDA r : r.full_name = left_names[i])
        IN  IF matches = <<>> THEN << <<i, NoVenueStats>> >>
            ELSE [k \in 1 .. Len(matches) |-> <<i, matches[k]>>]])

\* the row of player_df made of a season row s, a home row h and an away
\* row a
player_row(s, h, a) ==
    LET points_per90_season == per90(s.total_points, s.total_minutes)
        form_trend_points == RatMinus(s.points_per90_last_5, points_per90_season)
    IN  [full_name |-> s.full_name,
         player_team_x |-> s.player_team,
         player_team_y |-> h.player_team,
         player_team |-> a.player_team,
         fixtures_played |-> s.fixtures_played,
         total_minutes |-> s.total_minutes,
         total_points |-> s.total_points,
         points_last_5 |-> s.points_last_5,
         minutes_last_5 |-> s.minutes_last_5,
         points_per90_last_5 |-> s.points_per90_last_5,
         minutes_home |-> h.minutes,
         points_home |-> h.points,
         games_home |-> h.games,
         points_home_per90 |-> h.points_per90,
         minutes_away |-> a.minutes,
         points_away |-> a.points,
         games_away |-> a.games,
         points_away_per90 |-> a.points_per90,
         points_per90_season |-> points_per90_season,
         form_trend_points |-> form_trend_points,
         hot_form |-> (RatAboveOne(form_trend_points) /\ s.fixtures_played >= 5),
         home_away_points_diff |-> RatMinus(h.points_per90, a.points_per90)]

\* aggregate_player_stats(df): season_agg merged with home_stats, the result
\* merged with away_stats, then the derived columns
aggregate_player_stats(df) ==
    LET season_agg == season_groups(df)
        with_home == merge_on_full_name(Column(season_agg, "full_name"),
                                        venue_stats(df, "Home"))
        with_away == merge_on_full_name(
                        [i \in 1 .. Len(with_home) |->
                            season_agg[with_home[i][1]].full_name],
                        venue_stats(df, "Away"))
    IN  [i \in 1 .. Len(with_away) |->
            player_row(season_agg[with_home[with_away[i][1]][1]],
                       with_home[with_away[i][1]][2],
                       with_away[i][2])]

(***************************************************************************)
(* The scraper: operations, in the order of scrape_all_data                *)
(***************************************************************************)
\* initialize_mappings(): self.players from the bootstrap data
InitializeMappings(squad) ==
    /\ players = <<>>
    /\ players' = squad
    /\ UNCHANGED <<analyzer_vars, history, match_df, player_df>>

\* match_df = scraper.scrape_player_data()
ScrapePlayerData ==
    /\ players # <<>>
    /\ match_df = NoFrame
    /\ match_df' = scrape_player_data
    /\ UNCHANGED <<analyzer_vars, players, history, player_df>>

\* match_df = scraper.calculate_rolling_metrics(match_df), when match_df is
\* not empty
CalculateRollingMetrics ==
    /\ match_df # NoFrame
    /\ match_df.rows # <<>>
    /\ match_df.columns = MatchColumns
    /\ match_df' = calculate_rolling_metrics(match_df)
    /\ UNCHANGED <<analyzer_vars, players, history, player_df>>

\* player_df = scraper.aggregate_player_stats(match_df)
AggregatePlayerStats ==
    /\ match_df # NoFrame
    /\ match_df.columns = RollingColumns
    /\ player_df = NoFrame
    /\ player_df' = DataFrame({}, aggregate_player_stats(match_df))
    /\ UNCHANGED <<analyzer_vars, players, history, match_df>>

InitForm ==
    /\ teams = <<>>
    /\ current_gw = None
    /\ first_full_gw = None
    /\ api_fixtures = <<>>
    /\ team_form_df = NoForm
    /\ ret = NoCall
    /\ kept = NoCall
    /\ quicksort = <<>>
    /\ players = <<>>
    /\ history \in Histories
    /\ match_df = NoFrame
    /\ player_df = NoFrame

NextForm ==
    \/ \E squad \in Squads : InitializeMappings(squad)
    \/ ScrapePlayerData
    \/ CalculateRollingMetrics
    \/ AggregatePlayerStats

SpecForm == InitForm /\ [][NextForm]_vars

(***************************************************************************)
(* Claims about the rolling metrics and the season aggregate (SpecForm)    *)
(***************************************************************************)
\* match_df holds the result of calculate_rolling_metrics
IsRolled == match_df # NoFrame /\ match_df.columns = RollingColumns

\* player_df holds the result of aggregate_player_stats
IsAggregated == player_df # NoFrame

\* the records of player p in match_df, in its order (by round ascending)
PlayerRows(p) == SelectSeq(match_df.rows, LAMBDA r : r.player_id = p)

\* the sum of col over the records at positions max(1, i-w+1) .. i of rows
WindowSum(rows, col, w, i) ==
    SumSeq(SubSeq(Column(rows, col), IF i > w THEN i - w + 1 ELSE 1, i))

\* C14 as claimed: for every player, position i of the player's records by
\* round and window W, points_last_W and minutes_last_W are the sums over the
\* player's records at positions max(0, i-W+1) .. i
C14_WindowSums ==
    IsRolled =>
        \A p \in DOMAIN players : \A i \in 1 .. Len(PlayerRows(p)) : \A w \in Windows :
            /\ PlayerRows(p)[i].points_last[w]
               = WindowSum(PlayerRows(p), "total_points", w, i)
            /\ PlayerRows(p)[i].minutes_last[w]
               = WindowSum(PlayerRows(p), "minutes", w, i)

\* the rows of match_df grouped with row i, and the position of row i among
\* them
GroupRows(i) ==
    SelectSeq(match_df.rows, LAMBDA r : GroupKey(r) = GroupKey(match_df.rows[i]))
GroupPos(i) ==
    Cardinality({j \in 1 .. i : GroupKey(match_df.rows[j]) = GroupKey(match_df.rows[i])})

\* the example of C15: a player with the three matches minutes [90, 90, 0],
\* points [5, 2, 0], and nobody else with a match
C15_Example ==
    /\ IsRolled
    /\ Len(match_df.rows) = 3
    /\ Column(match_df.rows, "player_id") = <<1, 1, 1>>
    /\ Column(match_df.rows, "minutes") = <<90, 90, 0>>
    /\ Column(match_df.rows, "total_points") = <<5, 2, 0>>

\* C15: for every row and window W, points_per90_last_W is 0 when the minutes
\* summed over the window are 0 and otherwise points summed * 90 / minutes
\* summed over the same window (the W rows of the group ending at the row);
\* in the example the third row has points 7, minutes 180 and rate 3.5 for
\* W = 3
C15_Per90 ==
    IsRolled =>
        /\ \A i \in 1 .. Len(match_df.rows) : \A w \in Windows :
              LET pts == WindowSum(GroupRows(i), "total_points", w, GroupPos(i))
                  mins == WindowSum(GroupRows(i), "minutes", w, GroupPos(i))
                  rate == match_df.rows[i].points_per90_last[w]
              IN  /\ match_df.rows[i].minutes_last[w] = mins
                  /\ match_df.rows[i].points_last[w] = pts
                  /\ rate[2] > 0
                  /\ mins = 0 => rate[1] = 0
                  /\ mins # 0 => rate[1] * mins = pts * 90 * rate[2]
        /\ C15_Example =>
              /\ match_df.rows[3].points_last[3] = 7
              /\ match_df.rows[3].minutes_last[3] = 180
              /\ match_df.rows[3].points_per90_last[3] = <<7, 2>>

\* C15 witness: the example has been computed
C15_Witness == C15_Example

\* the result of calculate_rolling_metrics on the matches of player p alone
RolledAlone(p) ==
    calculate_rolling_metrics(
        DataFrame(MatchColumns, get_player_match_history(p))).rows

\* C16 as claimed: the rolling values of the records of a player are those
\* computed from the player's records alone, whatever the other player's
\* name, price, display name, team and position
C16_NoMixing ==
    IsRolled => \A p \in DOMAIN players : PlayerRows(p) = RolledAlone(p)

\* C17 as claimed: in every row of player_df the home and away sums add up to
\* the season sums, and the per-90 rate of the added splits is
\* points_per90_season
C17_SplitsAddUp ==
    IsAggregated =>
        \A i \in 1 .. Len(player_df.rows) :
            LET row == player_df.rows[i]
            IN  /\ row.minutes_home + row.minutes_away = row.total_minutes
                /\ row.points_home + row.points_away = row.total_points
                /\ row.games_home + row.games_away = row.fixtures_played
                /\ per90(row.points_home + row.points_away,
                         row.minutes_home + row.minutes_away)
                   = row.points_per90_season

\* only player 1 has matches: match_df is a single-player sequence
SinglePlayer == Len(history[1]) >= 2 /\ history[2] = <<>>

\* the last record of the history of player 1, and the records before it
AppendedRecord == history[1][Len(history[1])]
OriginalRecords ==
    SubSeq(get_player_match_history(1), 1, Len(history[1]) - 1)

\* the rolling values of the record of fixture k in a rolled table
RollingValues(rows, k) ==
    LET r == CHOOSE x \in {rows[i] : i \in 1 .. Len(rows)} : x.fixture = k
    IN  <<r.points_last, r.minutes_last, r.points_per90_last>>

\* every record of the original sequence has in match_df the rolling values
\* it has when calculate_rolling_metrics is run on the original sequence
OriginalUnchanged ==
    \A k \in 1 .. Len(OriginalRecords) :
        RollingValues(match_df.rows, k)
        = RollingValues(
              calculate_rolling_metrics(DataFrame(MatchColumns, OriginalRecords)).rows,
              k)

\* C18 as claimed: whatever record is appended to a single-player sequence,
\* the rolling values of the original records are unchanged
C18_AppendOnly_Claimed == (IsRolled /\ SinglePlayer) => OriginalUnchanged

\* C18 amended: when the appended record's round is not lower than the round
\* of any record of the sequence, the rolling values of the original records
\* are unchanged
C18_AppendOnly ==
    (/\ IsRolled
     /\ SinglePlayer
     /\ \A k \in 1 .. Len(OriginalRecords) :
           OriginalRecords[k].round <= AppendedRecord.round)
    => OriginalUnchanged

\* C18 witness: a record with minutes and points appended in round order to a
\* sequence longer than the shortest window
C18_Witness ==
    /\ IsRolled
    /\ SinglePlayer
    /\ Len(OriginalRecords) >= 4
    /\ AppendedRecord.round = Len(history[1])
    /\ AppendedRecord.total_points > 0

\* C19 as claimed, for a player who alone has matches: the row of player_df
\* has hot_form exactly when form_trend_points > 1.0 and minutes_last_5 >= 270
C19_HotForm ==
    (IsAggregated /\ history[2] = <<>>) =>
        \A i \in 1 .. Len(player_df.rows) :
            player_df.rows[i].hot_form
            = (/\ RatAboveOne(player_df.rows[i].form_trend_points)
               /\ player_df.rows[i].minutes_last_5 >= 270)

\* the points per 90 of the last five records of player p minus the points
\* per 90 of all the records of p
OwnFormTrend(p) ==
    LET rows == PlayerRows(p)
    IN  RatMinus(per90(WindowSum(rows, "total_points", 5, Len(rows)),
                       WindowSum(rows, "minutes", 5, Len(rows))),
                 per90(SumSeq(Column(rows, "total_points")),
                       SumSeq(Column(rows, "minutes"))))

\* the rows of player_df of the name and team of player p
AggregateRows(p) ==
    SelectSeq(player_df.rows,
              LAMBDA r : /\ r.full_name = players[p].full_name
                         /\ r.player_team_x = players[p].team)

\* C20 as claimed: every player with a match has a row in player_df, and
\* form_trend_points in it is the points per 90 of the player's last five
\* records by round minus the points per 90 of all the player's records
C20_FormTrend ==
    IsAggregated =>
        \A p \in DOMAIN players :
            Len(PlayerRows(p)) > 0 =>
                /\ Len(AggregateRows(p)) > 0
                /\ \A i \in 1 .. Len(AggregateRows(p)) :
                      AggregateRows(p)[i].form_trend_points = OwnFormTrend(p)

(***************************************************************************)
(* Histories with records the data source should not send (SpecMatch)      *)
(***************************************************************************)
MaxRecords == 2

\* the lines of MatchLines, and: points lost without playing (a red card on
\* the bench), negative minutes, a venue flag that is neither 0 nor 1, a null
\* flag
AnyMatchLines ==
    MatchLines \cup
    {<<0, 0 - 3, 1>>, <<0 - 90, 2, 0>>, <<90, 1, 2>>, <<90, 1, None>>}

AnyHistories ==
    {[i \in PlayerIds |-> IF i = 1 THEN h1 ELSE h2] :
        h1 \in UNION {{ApiHistory(ls, Len(ls)), ApiHistory(ls, 1)} :
                        ls \in SeqsUpTo(AnyMatchLines, MaxRecords)},
        h2 \in {ApiHistory(ls, 1) : ls \in SeqsUpTo(MatchLines, 1)}}

InitMatch ==
    /\ teams = <<>>
    /\ current_gw = None
    /\ first_full_gw = None
    /\ api_fixtures = <<>>
    /\ team_form_df = NoForm
    /\ ret = NoCall
    /\ kept = NoCall
    /\ quicksort = <<>>
    /\ players = <<>>
    /\ history \in AnyHistories
    /\ match_df = NoFrame
    /\ player_df = NoFrame

SpecMatch == InitMatch /\ [][NextForm]_vars

\* match_df holds match records (with or without the rolling columns)
IsScraped == match_df # NoFrame /\ match_df.rows # <<>>

\* C21 as claimed: every per-90 value is 0 when its minutes are 0: the
\* points_per90 of a match record with minutes = 0 is 0, and so are the rate
\* of a rolling window whose minutes sum to 0 and the season and home/away
\* rates of an aggregate row without minutes
C21_ZeroMinutes ==
    /\ IsScraped =>
          \A i \in 1 .. Len(match_df.rows) :
              match_df.rows[i].minutes = 0 => match_df.rows[i].points_per90 = Rat(0, 1)
    /\ IsRolled =>
          \A i \in 1 .. Len(match_df.rows) : \A w \in Windows :
              match_df.rows[i].minutes_last[w] = 0
                  => match_df.rows[i].points_per90_last[w] = Rat(0, 1)
    /\ IsAggregated =>
          \A i \in 1 .. Len(player_df.rows) :
              /\ player_df.rows[i].total_minutes = 0
                    => player_df.rows[i].points_per90_season = Rat(0, 1)
              /\ player_df.rows[i].minutes_home = 0
                    => player_df.rows[i].points_home_per90 = Rat(0, 1)
              /\ player_df.rows[i].minutes_away = 0
                    => player_df.rows[i].points_away_per90 = Rat(0, 1)

\* C22 as claimed: a record with negative minutes or with a venue flag that
\* is neither home nor away is rejected: no record of match_df, from which
\* the rolling, season and home/away values are computed, has negative
\* minutes or a venue other than Home and Away, and no record of the history
\* with a null flag is taken for an away match
C22_Rejected ==
    IsScraped =>
        /\ \A i \in 1 .. Len(match_df.rows) :
              /\ match_df.rows[i].minutes >= 0
              /\ match_df.rows[i].venue \in {"Home", "Away"}
        /\ \A p \in DOMAIN players : \A k \in 1 .. Len(history[p]) :
              history[p][k].was_home \in {0, 1}

(***************************************************************************)
(* Claims about players without records and about the rows of the          *)
(* aggregate (SpecForm)                                                    *)
(***************************************************************************)
\* C23 as claimed: a player with zero match records is present in the season
\* aggregate with a row whose sums and per-90 rates are all 0
C23_ZeroRecords ==
    IsAggregated =>
        \A p \in DOMAIN players :
            history[p] = <<>> =>
                \E i \in 1 .. Len(player_df.rows) :
                    /\ player_df.rows[i].full_name = players[p].full_name
                    /\ player_df.rows[i].player_team_x = players[p].team
                    /\ player_df.rows[i].fixtures_played = 0
                    /\ player_df.rows[i].total_minutes = 0
                    /\ player_df.rows[i].total_points = 0
                    /\ player_df.rows[i].points_per90_season = Rat(0, 1)

\* the groups of the input of aggregate_player_stats, by their key
InputGroups == {GroupKey(match_df.rows[i]) : i \in 1 .. Len(match_df.rows)}

\* the rows of player_df made of the season row of the group of key k
RowsOfGroup(k) ==
    {i \in 1 .. Len(player_df.rows) :
        /\ player_df.rows[i].full_name = k[1]
        /\ player_df.rows[i].player_team_x = k[4]}

\* C27 as claimed: the table returned by aggregate_player_stats has exactly
\* one row per distinct group of the input, also when two distinct groups
\* share the same full_name
C27_OneRowPerGroup ==
    IsAggregated =>
        /\ Len(player_df.rows) = Cardinality(InputGroups)
        /\ \A k \in InputGroups : Cardinality(RowsOfGroup(k)) = 1

\* the minutes of the records 1 .. i of rows
CumulativeMinutes(rows, i) == SumSeq(SubSeq(Column(rows, "minutes"), 1, i))

\* C28 as claimed (the minutes of the records are not negative here): for
\* every player and every position i of the player's records,
\* minutes_last_3 <= minutes_last_5 <= minutes_last_10 <= the minutes of the
\* player's records 1 .. i; and for a player with at most W records the
\* W-window sums of the player's last record are the season totals of the
\* player's row of the aggregate
C28_NestedWindows ==
    /\ IsRolled =>
          \A p \in DOMAIN players : \A i \in 1 .. Len(PlayerRows(p)) :
              /\ PlayerRows(p)[i].minutes_last[3] <= PlayerRows(p)[i].minutes_last[5]
              /\ PlayerRows(p)[i].minutes_last[5] <= PlayerRows(p)[i].minutes_last[10]
              /\ PlayerRows(p)[i].minutes_last[10] <= CumulativeMinutes(PlayerRows(p), i)
    /\ IsAggregated =>
          \A p \in DOMAIN players : \A w \in Windows :
              (PlayerRows(p) # <<>> /\ Len(PlayerRows(p)) <= w) =>
                  \A k \in 1 .. Len(AggregateRows(p)) :
                      /\ PlayerRows(p)[Len(PlayerRows(p))].minutes_last[w]
                            = AggregateRows(p)[k].total_minutes
                      /\ PlayerRows(p)[Len(PlayerRows(p))].points_last[w]
                            = AggregateRows(p)[k].total_points

(***************************************************************************)
(* The form-trends view of the overview page (SpecView)                    *)
(***************************************************************************)
RatLess(a, b) == a[1] * b[2] < b[1] * a[2]
RatBelowMinusOne(a) == a[1] < 0 - a[2]

\* the rows shown per list: nlargest(10, ..), nsmallest(10, ..)
TopN == 10

\* df['hot_form'], set by show_form_trends only if the table has no such
\* column
view_hot_form(r) ==
    IF "hot_form" \in DOMAIN r THEN r.hot_form
    ELSE RatAboveOne(r.form_trend_points) /\ r.minutes_last_5 >= 270

\* df['cold_form'], likewise
view_cold_form(r) ==
    IF "cold_form" \in DOMAIN r THEN r.cold_form
    ELSE RatBelowMinusOne(r.form_trend_points) /\ r.minutes_last_5 >= 270

\* the columns of a row that the view shows, with the two flags
view_row(r) ==
    [full_name |-> r.full_name,
     points_per90_season |-> r.points_per90_season,
     points_per90_last_5 |-> r.points_per90_last_5,
     form_trend_points |-> r.form_trend_points,
     minutes_last_5 |-> r.minutes_last_5,
     hot_form |-> view_hot_form(r),
     cold_form |-> view_cold_form(r)]

\* rows without the row at position i
Without(rows, i) == SubSeq(rows, 1, i - 1) \o SubSeq(rows, i + 1, Len(rows))

\* rows.nlargest(n, 'form_trend_points'): the n rows of the highest trend,
\* highest first, the earlier row first among equal trends
RECURSIVE nlargest(_, _)
nlargest(n, rows) ==
    IF n = 0 \/ rows = <<>> THEN <<>>
    ELSE LET i == CHOOSE i \in 1 .. Len(rows) :
                    /\ \A j \in 1 .. Len(rows) :
                          ~RatLess(rows[i].form_trend_points, rows[j].form_trend_points)
                    /\ \A j \in 1 .. i - 1 :
                          RatLess(rows[j].form_trend_points, rows[i].form_trend_points)
         IN  <<rows[i]>> \o nlargest(n - 1, Without(rows, i))

\* rows.nsmallest(n, 'form_trend_points')
RECURSIVE nsmallest(_, _)
nsmallest(n, rows) ==
    IF n = 0 \/ rows = <<>> THEN <<>>
    ELSE LET i == CHOOSE i \in 1 .. Len(rows) :
                    /\ \A j \in 1 .. Len(rows) :
                          ~RatLess(rows[j].form_trend_points, rows[i].form_trend_points)
                    /\ \A j \in 1 .. i - 1 :
                          RatLess(rows[i].form_trend_points, rows[j].form_trend_points)
         IN  <<rows[i]>> \o nsmallest(n - 1, Without(rows, i))

\* show_form_trends(df, match_data): the table with the two flags, the list
\* of the players in hot form and the list of the players in cold form
show_form_trends(df) ==
    LET flagged == [i \in 1 .. Len(df.rows) |-> view_row(df.rows[i])]
    IN  [op |-> "show_form_trends",
         df |-> flagged,
         hot_players |-> nlargest(TopN, SelectSeq(flagged, LAMBDA r : r.hot_form)),
         cold_players |-> nsmallest(TopN, SelectSeq(flagged, LAMBDA r : r.cold_form))]

\* the overview page shows the form analysis of the player data
ShowFormTrends ==
    /\ player_df # NoFrame
    /\ ret = NoCall
    /\ ret' = show_form_trends(player_df)
    /\ UNCHANGED <<teams, current_gw, first_full_gw, api_fixtures, team_form_df,
                   kept, quicksort, scraper_vars>>

\* what a match of a history can be here: a high score, a low score, a match
\* without playing
ViewMatchLines == {<<90, 12, 1>>, <<90, 1, 0>>, <<0, 0, 1>>}

\* player 1 with up to MaxMatches matches, player 2 without a match
ViewHistories ==
    {[i \in PlayerIds |-> IF i = 1 THEN ApiHistory(ls, Len(ls)) ELSE <<>>] :
        ls \in SeqsUpTo(ViewMatchLines, MaxMatches)}

InitView ==
    /\ teams = <<>>
    /\ current_gw = None
    /\ first_full_gw = None
    /\ api_fixtures = <<>>
    /\ team_form_df = NoForm
    /\ ret = NoCall
    /\ kept = NoCall
    /\ quicksort = <<>>
    /\ players = <<>>
    /\ history \in ViewHistories
    /\ match_df = NoFrame
    /\ player_df = NoFrame

NextView ==
    \/ NextForm
    \/ ShowFormTrends

SpecView == InitView /\ [][NextView]_vars

IsFormView == ret.op = "show_form_trends"

\* C24 as claimed: in the form-trends view a player is flagged cold exactly
\* when form_trend_points < -1.0 and minutes_last_5 >= 270, and flagged hot
\* exactly when form_trend_points > 1.0 with the same floor
\* minutes_last_5 >= 270
C24_SameFloor ==
    IsFormView =>
        \A i \in 1 .. Len(ret.df) :
            /\ ret.df[i].cold_form
                  <=> (RatBelowMinusOne(ret.df[i].form_trend_points)
                          /\ ret.df[i].minutes_last_5 >= 270)
            /\ ret.df[i].hot_form
                  <=> (RatAboveOne(ret.df[i].form_trend_points)
                          /\ ret.df[i].minutes_last_5 >= 270)

(***************************************************************************)
(* The upcoming fixtures of the player-detail page (SpecDetail)            *)
(***************************************************************************)
\* <<team_h_difficulty, team_a_difficulty>> of a fixture of the endpoint: a
\* rating 1 .. 5, 0 when there is none, None for a missing value (NaN)
DifficultyPairs == {<<None, 0>>, <<0, None>>, <<2, 4>>, <<5, 1>>, <<3, 3>>}

\* the fixtures between teams 1 and 2 that the endpoint can list
DetailFixtures ==
    {[event |-> e, team_h |-> h, team_a |-> 3 - h, finished |-> f,
      team_h_difficulty |-> d[1], team_a_difficulty |-> d[2]] :
        e \in 1 .. MaxGW, h \in ScoreTeams, f \in BOOLEAN, d \in DifficultyPairs}

\* at most two fixtures, of different gameweeks, in kickoff order
DetailFixtureLists ==
    {fs \in SeqsUpTo(DetailFixtures, 2) :
        \A i \in 1 .. Len(fs) : \A j \in 1 .. Len(fs) :
            i < j => fs[i].event < fs[j].event}

RatMin(a, x) == IF RatLess(x, a) THEN x ELSE a
RatMax(a, x) == IF RatLess(a, x) THEN x ELSE a
RatTimes(a, b) == Rat(a[1] * b[1], a[2] * b[2])
RatPlus(a, b) == Rat(a[1] * b[2] + b[1] * a[2], a[2] * b[2])

\* the venue factors the other way round
venue_factor_swapped(is_home) == IF is_home THEN Rat(115, 100) ELSE Rat(85, 100)

\* fdr * 0.85 if is_home, fdr * 1.15 otherwise
venue_factor(is_home) == IF is_home THEN Rat(85, 100) ELSE Rat(115, 100)

\* the difficulty computed from the strength of the opponent when the
\* endpoint gives none
strength_fdr(opp_strength, is_home) ==
    LET min_strength == 1000
        max_strength == 1400
        normalized == Rat(opp_strength - min_strength, max_strength - min_strength)
        fdr == RatPlus(Rat(1, 1), RatTimes(normalized, Rat(4, 1)))
    IN  RatMax(Rat(1, 1), RatMin(Rat(5, 1), RatTimes(fdr, venue_factor(is_home))))

\* fdr of a fixture of team_id before it is rounded for display
fixture_fdr(fixture, team_id) ==
    LET is_home == fixture.team_h = team_id
        opponent_id == IF is_home THEN fixture.team_a ELSE fixture.team_h
        opp_strength == IF is_home THEN teams[opponent_id].strength_overall_away
                        ELSE teams[opponent_id].strength_overall_home
        fdr == IF is_home THEN fixture.team_h_difficulty
               ELSE fixture.team_a_difficulty
    IN  IF fdr = 0 \/ fdr = None THEN strength_fdr(opp_strength, is_home)
        ELSE Rat(fdr, 1)

\* the unfinished fixtures of team_id by gameweek
detail_team_fixtures(team_id) ==
    StableSortByGw(
        SelectSeq(api_fixtures,
                  LAMBDA f : /\ f.finished = FALSE
                             /\ (f.team_h = team_id \/ f.team_a = team_id)),
        LAMBDA f : f.event)

\* fixture_list: GW, OPP (opponent and venue) and FDR, int(round(float(fdr)))
fixture_list(team_id) ==
    LET listed == detail_team_fixtures(team_id)
    IN  [i \in 1 .. Len(listed) |->
            [GW |-> listed[i].event,
             OPP |-> IF listed[i].team_h = team_id
                     THEN <<listed[i].team_a, "H">>
                     ELSE <<listed[i].team_h, "A">>,
             FDR |-> RoundHalfEven(fixture_fdr(listed[i], team_id)[1],
                                   fixture_fdr(listed[i], team_id)[2])]]

\* the upcoming fixtures block of the page of a player of team_id
ShowUpcomingFixtures(team_id) ==
    /\ team_id \in DOMAIN teams
    /\ ret' = [op |-> "upcoming_fixtures", team_id |-> team_id,
               fixture_list |-> fixture_list(team_id)]
    /\ UNCHANGED <<teams, current_gw, first_full_gw, api_fixtures, team_form_df,
                   kept, quicksort, scraper_vars>>

InitDetail ==
    /\ teams \in {[i \in ScoreTeams |-> Team(i, p[i][1], p[i][2])] :
                  p \in [ScoreTeams -> StrengthPairs]}
    /\ current_gw \in 1 .. MaxGW
    /\ first_full_gw = None
    /\ api_fixtures \in DetailFixtureLists
    /\ team_form_df = NoForm
    /\ ret = NoCall
    /\ kept = NoCall
    /\ quicksort = <<>>
    /\ ScraperIdle

NextDetail == \E team_id \in ScoreTeams : ShowUpcomingFixtures(team_id)

SpecDetail == InitDetail /\ [][NextDetail]_vars

IsDetail == ret.op = "upcoming_fixtures"

\* the difficulty the endpoint gives the team of the page for fixture f
Upstream(f, team_id) ==
    IF f.team_h = team_id THEN f.team_h_difficulty ELSE f.team_a_difficulty

\* clamp(m * (1 + 4 * (s - 1000) / 400), 1, 5) in ten-thousandths, m = 0.85
\* at home and 1.15 away, s the away strength of the visiting opponent or
\* the home strength of the hosting opponent
ClaimedFallback(f, team_id) ==
    LET s == IF f.team_h = team_id THEN teams[f.team_a].strength_overall_away
             ELSE teams[f.team_h].strength_overall_home
        m == IF f.team_h = team_id THEN 85 ELSE 115
    IN  Clamp(m * (s - 900), 10000, 50000)

RerunFixtures ==
    {f \in {Fixture(e, h, a, d) : e \in (1 .. MaxGW) \cup {LateGW},
                                  h \in TeamIds, a \in TeamIds, d \in BOOLEAN} :
        f.team_h < f.team_a}

\* at most two fixtures in kickoff order, no fixture twice
RerunFixtureLists ==
    {fs \in SeqsUpTo(RerunFixtures, 2) :
        \A i \in 1 .. Len(fs) : \A j \in 1 .. Len(fs) :
            i < j => /\ fs[i].event <= fs[j].event
                     /\ <<fs[i].event, fs[i].team_h, fs[i].team_a>>
                            # <<fs[j].event, fs[j].team_h, fs[j].team_a>>}

\* the caller takes the table the last call returned and keeps it
KeepResult ==
    /\ kept = NoCall
    /\ ret.op \in {"get_upcoming_fixtures", "analyze_team_fixtures"}
    /\ kept' = ret
    /\ ret' = NoCall
    /\ UNCHANGED <<teams, current_gw, first_full_gw, api_fixtures, team_form_df,
                   quicksort, scraper_vars>>

InitRerun ==
    /\ teams = League
    /\ current_gw \in {None} \cup (1 .. MaxGW)
    /\ first_full_gw = None
    /\ api_fixtures \in RerunFixtureLists
    /\ team_form_df \in {NoForm, LeagueForm}
    /\ ret = NoCall
    /\ kept = NoCall
    /\ quicksort \in {<<1, 2, 3>>, <<3, 2, 1>>}
    /\ ScraperIdle

NextRerun ==
    \/ \E n \in 1 .. MaxN : GetUpcomingFixtures(n)
    \/ \E n \in 1 .. MaxN : AnalyzeTeamFixtures(n)
    \/ KeepResult

SpecRerun == InitRerun /\ [][NextRerun]_vars

\* C26: a call of analyze_team_fixtures or get_upcoming_fixtures with the N
\* of an earlier call on the same analyzer (same teams, fixtures, current_gw
\* and form table) returns what the earlier call returned
C26_Idempotent ==
    (kept # NoCall /\ ret.op = kept.op /\ ret.n = kept.n) => ret = kept

\* C26 witness: a second analyze_team_fixtures with the N of the kept one,
\* after the first call has stored a first_full_gw other than current_gw, on
\* a table of several rows
C26_Witness ==
    /\ kept # NoCall
    /\ IsRank
    /\ ret.op = kept.op
    /\ ret.n = kept.n
    /\ Len(ret.table) > 1
    /\ first_full_gw # None
    /\ first_full_gw # current_gw

\* some gameweek of the ten from current_gw on is full
FullInLookahead ==
    \E g \in current_gw .. current_gw + 9 : FullGameweek(g)

\* C29: after a call of get_upcoming_fixtures with current_gw set,
\* current_gw <= first_full_gw < current_gw + 10, and first_full_gw is
\* current_gw when no gameweek of these ten reaches the 75% threshold; with
\* current_gw not set find_first_full_gameweek returns None and
\* get_upcoming_fixtures an empty table
C29_FirstFullRange ==
    IsUpcoming =>
        IF current_gw # None
        THEN /\ current_gw <= first_full_gw
             /\ first_full_gw < current_gw + 10
             /\ ~FullInLookahead => first_full_gw = current_gw
        ELSE /\ find_first_full_gameweek(api_fixtures) = None
             /\ ret.upcoming = <<>>

\* C29 witnesses: a call that found the full gameweek current_gw + 9, a call
\* that fell back to current_gw with a full gameweek beyond the ten, and a
\* call without current_gw
C29_Witness ==
    /\ IsUpcoming
    /\ current_gw # None
    /\ first_full_gw = current_gw + 9

C29_Witness_Fallback ==
    /\ IsUpcoming
    /\ current_gw # None
    /\ first_full_gw = current_gw
    /\ ~FullInLookahead
    /\ FullGameweek(current_gw + 10)

C29_Witness_NotSet ==
    /\ IsUpcoming
    /\ current_gw = None
    /\ api_fixtures # <<>>

(***************************************************************************)
(* Refreshes while the fixtures are being played (SpecRefresh): current_gw *)
(* stays what it is, the provider marks fixtures finished, and the caller  *)
(* asks for the upcoming fixtures again and again.                         *)
(***************************************************************************)
RefreshFixtures ==
    {f \in {Fixture(e, h, a, FALSE) : e \in 1 .. MaxGW, h \in TeamIds, a \in TeamIds} :
        f.team_h < f.team_a}

\* at most four fixtures, none finished yet, gameweek by gameweek, no fixture
\* twice
RefreshFixtureLists ==
    {fs \in SeqsUpTo(RefreshFixtures, 4) :
        \A i \in 1 .. Len(fs) : \A j \in 1 .. Len(fs) :
            i < j => \/ fs[i].event < fs[j].event
                     \/ /\ fs[i].event = fs[j].event
                        /\ 10 * fs[i].team_h + fs[i].team_a
                              < 10 * fs[j].team_h + fs[j].team_a}

InitRefresh ==
    /\ teams = League
    /\ current_gw \in 1 .. MaxGW
    /\ first_full_gw = None
    /\ api_fixtures \in RefreshFixtureLists
    /\ team_form_df = NoForm
    /\ ret = NoCall
    /\ kept = NoCall
    /\ quicksort = <<1, 2, 3>>
    /\ ScraperIdle

NextRefresh ==
    \/ \E n \in 1 .. MaxN : GetUpcomingFixtures(n)
    \/ \E i \in 1 .. Len(api_fixtures) : FinishFixture(i)
    \/ KeepResult

SpecRefresh == InitRefresh /\ [][NextRefresh]_vars

\* C30 as claimed: with current_gw fixed and fixtures changing only from
\* unfinished to finished, the gameweek a refresh finds is never lower than
\* the gameweek the refresh before it found
C30_NeverDecreases ==
    [][first_full_gw # None => first_full_gw' >= first_full_gw]_vars

\* C30: a refresh that finds a full gameweek (at least 75% of the teams with
\* an unfinished fixture) never finds one lower than the gameweek the refresh
\* before it found; a refresh that finds no full gameweek returns current_gw,
\* which can be lower
C30_NeverDecreasesWhileFull ==
    [][(first_full_gw # None /\ FullGameweek(first_full_gw'))
          => first_full_gw' >= first_full_gw]_vars

\* C30 witness: a refresh kept by the caller listed a fixture of a gameweek
\* before the full gameweek that a later refresh, after fixtures were
\* finished, has found
C30_Witness ==
    /\ kept # NoCall
    /\ kept.upcoming # <<>>
    /\ IsUpcoming
    /\ FullGameweek(first_full_gw)
    /\ kept.upcoming[1].event < first_full_gw
    /\ \E i \in 1 .. Len(api_fixtures) : api_fixtures[i].finished

=============================================================================
